---- MODULE Spec2Model ----
(***************************************************************************)
(* A model of the three compatibility-report scripts of absfs/absnfs:      *)
(*   .github/scripts/check_progress_consistency.py                         *)
(*   .github/scripts/validate_client_reports.py                            *)
(*   .github/scripts/update_compatibility_matrix.py                        *)
(*                                                                         *)
(* Text is modelled as sequences of lexical units.  A display name is a    *)
(* sequence of characters; a report is a sequence of lines; the index      *)
(* document is a sequence of units in which every newline is a unit of its *)
(* own.  Each regular expression of the scripts is an operator computing   *)
(* what the expression matches on such a sequence.                         *)
(***************************************************************************)
EXTENDS Integers, Sequences, FiniteSets, TLC

\* Longest display name given to normalize_client_name.
MaxNameLen == 4

\* Most report files found by glob in one run.
MaxReports == 2
\* Most rows of the client testing queue table of progress.md.
MaxQueueRows == 2
\* Most status icons and phrases on the Overall Rating line of a report.
MaxRatingToks == 2
\* Most runs of update_compatibility_matrix on the same files.
MaxRuns == 2

VARIABLES
    \* check_progress_consistency.py: normalize_client_name applied twice
    name, normalized, renormalized, npc,
    \* check_progress_consistency.py: the files read by check_consistency,
    \* the list it builds and main's exit code
    creports, progress, inconsistencies, cexit, cpc,
    \* validate_client_reports.py: the report given to validate_client_report,
    \* what it returns and what it prints
    vreport, vresult, vfindings, vpc,
    \* update_compatibility_matrix.py: the report given to parse_client_report,
    \* the feature statuses before the in-progress floor, and what it returns
    preport, pwip, presolved, presult, ppc,
    \* update_compatibility_matrix.py: the report files, index.md on disk, the
    \* locals of update_compatibility_matrix, main's exit code, and the index
    \* document as it was before the run and after each completed run
    mreports, disk, mcontent, mmatch, mupdated, mexit, mpc, runs, original,
    after_run

nameVars == <<name, normalized, renormalized, npc>>
checkVars == <<creports, progress, inconsistencies, cexit, cpc>>
valVars == <<vreport, vresult, vfindings, vpc>>
parseVars == <<preport, pwip, presolved, presult, ppc>>
matrixVars ==
    <<mreports, disk, mcontent, mmatch, mupdated, mexit, mpc, runs, original,
      after_run>>
vars == <<nameVars, checkVars, valVars, parseVars, matrixVars>>

----------------------------------------------------------------------------
(* Sequence helpers *)

Drop(s, n) == SubSeq(s, n + 1, Len(s))
Take(s, n) == SubSeq(s, 1, n)

\* Length of the longest prefix of s made of the unit c.
LeadingRun(s, c) ==
    CHOOSE k \in 0..Len(s) :
        /\ \A i \in 1..k : s[i] = c
        /\ (k = Len(s) \/ s[k + 1] # c)

\* Length of the longest suffix of s made of the unit c.
TrailingRun(s, c) ==
    CHOOSE k \in 0..Len(s) :
        /\ \A i \in (Len(s) - k + 1)..Len(s) : s[i] = c
        /\ (k = Len(s) \/ s[Len(s) - k] # c)

SeqsUpTo(S, n) == UNION {[1..k -> S] : k \in 0..n}

Range(s) == {s[i] : i \in DOMAIN s}

\* Python's "a in b" for two strings: a occurs in b as a contiguous run.
IsSubstring(a, b) ==
    \E i \in 0..(Len(b) - Len(a)) : SubSeq(b, i + 1, i + Len(a)) = a

----------------------------------------------------------------------------
(* Report text.  A report body is a sequence of lines.  A line has a kind  *)
(* ("title", "rating", "h2", "row", "text"), the text that identifies it   *)
(* (the section name of an h2 line), the label of its first table cell     *)
(* when it holds a table row, and the searched units it contains, in       *)
(* order: status icons, status phrases, and the fixed markers the scripts  *)
(* look for.                                                               *)

Line(kind, text, cell, toks) ==
    [kind |-> kind, text |-> text, cell |-> cell, toks |-> toks]

\* Python's "t in content" for a searched unit t.
Contains(content, t) == \E i \in DOMAIN content : t \in Range(content[i].toks)

----------------------------------------------------------------------------
(* Idle values of the variables a specification does not use.              *)

NoReport == [meta_ok |-> FALSE, content |-> <<>>]

IdleCheck ==
    /\ creports = <<>>
    /\ progress = [file |-> "missing", rows |-> <<>>]
    /\ inconsistencies = <<>>
    /\ cexit = -1
    /\ cpc = "idle"

IdleValidate ==
    /\ vreport = NoReport
    /\ vresult = FALSE
    /\ vfindings = {}
    /\ vpc = "idle"

IdleParse ==
    /\ preport = NoReport
    /\ pwip = FALSE
    /\ presolved = <<>>
    /\ presult = [ok |-> FALSE]
    /\ ppc = "idle"

IdleMatrix ==
    /\ mreports = <<>>
    /\ disk = <<>>
    /\ mcontent = <<>>
    /\ mmatch = [searched |-> FALSE, found |-> FALSE, start |-> 0, end |-> 0]
    /\ mupdated = <<>>
    /\ mexit = -1
    /\ mpc = "idle"
    /\ runs = 0
    /\ original = <<>>
    /\ after_run = <<>>

----------------------------------------------------------------------------
(* check_progress_consistency.py: normalize_client_name                    *)
(* A name is a sequence of characters.  "x" and "X" are a letter in its    *)
(* two cases, "kernel" is the word kernel taken as one unit.               *)

NameChars == {"x", "X", " ", "-", "+", "(", ")", "kernel"}

\* name.lower()
Lower(s) == [i \in DOMAIN s |-> IF s[i] = "X" THEN "x" ELSE s[i]]

\* re.sub(r'\s*kernel\s*', '-', name)
RECURSIVE SubKernel(_)
SubKernel(s) ==
    IF s = <<>> THEN <<>>
    ELSE LET k == LeadingRun(s, " ") IN
         IF k < Len(s) /\ s[k + 1] = "kernel"
         THEN LET rest == Drop(s, k + 1) IN
              <<"-">> \o SubKernel(Drop(rest, LeadingRun(rest, " ")))
         ELSE <<Head(s)>> \o SubKernel(Tail(s))

\* re.sub(r'\s*\([^)]*\)', '', name)
RECURSIVE SubParens(_)
SubParens(s) ==
    IF s = <<>> THEN <<>>
    ELSE LET k == LeadingRun(s, " ")
             closes == {j \in (k + 2)..Len(s) : s[j] = ")"} IN
         IF k < Len(s) /\ s[k + 1] = "(" /\ closes # {}
         THEN SubParens(Drop(s, CHOOSE j \in closes : \A i \in closes : j <= i))
         ELSE <<Head(s)>> \o SubParens(Tail(s))

\* re.sub(r'[+]+$', '', name)
StripTrailingPlus(s) == Take(s, Len(s) - TrailingRun(s, "+"))

\* re.sub(r'\s+', '-', name)
RECURSIVE SubSpaces(_)
SubSpaces(s) ==
    IF s = <<>> THEN <<>>
    ELSE LET k == LeadingRun(s, " ") IN
         IF k > 0 THEN <<"-">> \o SubSpaces(Drop(s, k))
         ELSE <<Head(s)>> \o SubSpaces(Tail(s))

\* re.sub(r'-+', '-', name)
RECURSIVE CollapseDashes(_)
CollapseDashes(s) ==
    IF s = <<>> THEN <<>>
    ELSE LET k == LeadingRun(s, "-") IN
         IF k > 0 THEN <<"-">> \o CollapseDashes(Drop(s, k))
         ELSE <<Head(s)>> \o CollapseDashes(Tail(s))

\* name.strip('-')
StripDashes(s) ==
    LET a == LeadingRun(s, "-")
        t == Drop(s, a) IN
    Take(t, Len(t) - TrailingRun(t, "-"))

normalize_client_name(n) ==
    StripDashes(CollapseDashes(SubSpaces(StripTrailingPlus(
        SubParens(SubKernel(Lower(n)))))))

IdleName ==
    /\ name = <<>>
    /\ normalized = <<>>
    /\ renormalized = <<>>
    /\ npc = "idle"

InitName ==
    /\ IdleCheck /\ IdleValidate /\ IdleParse /\ IdleMatrix
    /\ name \in SeqsUpTo(NameChars, MaxNameLen)
    /\ normalized = <<>>
    /\ renormalized = <<>>
    /\ npc = "start"

\* A caller normalizes a display name.
NormalizeName ==
    /\ npc = "start"
    /\ normalized' = normalize_client_name(name)
    /\ npc' = "once"
    /\ UNCHANGED <<name, renormalized, checkVars, valVars, parseVars, matrixVars>>

\* The already-normalized name is normalized again.
NormalizeAgain ==
    /\ npc = "once"
    /\ renormalized' = normalize_client_name(normalized)
    /\ npc' = "twice"
    /\ UNCHANGED <<name, normalized, checkVars, valVars, parseVars, matrixVars>>

NextName == NormalizeName \/ NormalizeAgain

SpecName == InitName /\ [][NextName]_vars

\* C8: name normalization is idempotent: normalizing an already-normalized
\* name yields the same string.
ClaimC8_Idempotent == npc = "twice" => renormalized = normalized

----------------------------------------------------------------------------
(* check_progress_consistency.py: check_consistency                        *)
(* A report file is its name without ".md" and its text.  progress.md is   *)
(* missing, holds no queue table, or holds the rows the queue pattern      *)
(* captures; a row is the number of parts line.split("|") gives, the       *)
(* stripped third part (the client) and the icons of the fifth part.       *)

\* Lines 21-23: a report is work in progress.
ReportIsWip(content) ==
    Contains(content, "In Progress") \/ Contains(content, "ICON_WIP")

get_client_status_from_reports(reps) ==
    [i \in DOMAIN reps |->
        [client |-> reps[i].file,
         status |-> IF ReportIsWip(reps[i].content)
                    THEN "in_progress" ELSE "completed"]]

\* clients[client] = status on a dict that keeps insertion order.
DictPut(d, k, v) ==
    IF \E i \in DOMAIN d : d[i].client = k
    THEN [i \in DOMAIN d |->
            IF d[i].client = k THEN [client |-> k, status |-> v] ELSE d[i]]
    ELSE Append(d, [client |-> k, status |-> v])

\* Line 59: re.match(r'^[-:]+$', client)
IsSeparatorCell(client) ==
    client # <<>> /\ \A i \in DOMAIN client : client[i] \in {"-", ":"}

\* Lines 65-70
CellStatus(cell) ==
    IF "ICON_WIP" \in cell THEN "in_progress"
    ELSE IF "ICON_FULL" \in cell THEN "completed"
    ELSE "not_started"

RECURSIVE ParseQueueRows(_, _)
ParseQueueRows(rows, d) ==
    IF rows = <<>> THEN d
    ELSE LET row == Head(rows) IN
         IF row.nparts < 5 \/ IsSeparatorCell(row.client)
         THEN ParseQueueRows(Tail(rows), d)
         ELSE ParseQueueRows(Tail(rows),
                             DictPut(d, row.client, CellStatus(row.cell)))

get_client_status_from_progress(p) ==
    IF p.file # "table" THEN <<>> ELSE ParseQueueRows(p.rows, <<>>)

\* Returns [found, client]: found is FALSE for Python's None.
find_matching_client(client_name, progress_clients) ==
    LET normalized_report == normalize_client_name(client_name)
        hits == {i \in DOMAIN progress_clients :
                    LET normalized_progress ==
                            normalize_client_name(progress_clients[i]) IN
                    \/ IsSubstring(normalized_report, normalized_progress)
                    \/ IsSubstring(normalized_progress, normalized_report)
                    \/ normalized_report = normalized_progress} IN
    IF hits = {} THEN [found |-> FALSE, client |-> <<>>]
    ELSE [found |-> TRUE,
          client |-> progress_clients[CHOOSE i \in hits : \A j \in hits : i <= j]]

DictKeys(d) == [i \in DOMAIN d |-> d[i].client]
DictGet(d, k) == d[CHOOSE i \in DOMAIN d : d[i].client = k].status

Issue(kind, client) == [kind |-> kind, client |-> client]

\* Lines 108-112: the first loop of check_consistency.
RECURSIVE MissingLoop(_, _)
MissingLoop(report_status, progress_status) ==
    IF report_status = <<>> THEN <<>>
    ELSE LET client == Head(report_status).client
             m == find_matching_client(client, DictKeys(progress_status)) IN
         (IF ~m.found THEN <<Issue("missing", client)>> ELSE <<>>)
         \o MissingLoop(Tail(report_status), progress_status)

\* Line 117: "if matching_progress_client:" is false for None and for an
\* empty name.
Truthy(m) == m.found /\ m.client # <<>>

\* Lines 114-124: the second loop of check_consistency.
RECURSIVE StatusLoop(_, _)
StatusLoop(report_status, progress_status) ==
    IF report_status = <<>> THEN <<>>
    ELSE LET client == Head(report_status).client
             report_state == Head(report_status).status
             m == find_matching_client(client, DictKeys(progress_status)) IN
         (IF Truthy(m)
          THEN LET progress_state == DictGet(progress_status, m.client) IN
               IF report_state = "completed" /\ progress_state # "completed"
               THEN <<Issue("completed", client)>>
               ELSE IF report_state = "in_progress"
                       /\ progress_state # "in_progress"
               THEN <<Issue("in_progress", client)>>
               ELSE <<>>
          ELSE <<>>)
         \o StatusLoop(Tail(report_status), progress_status)

check_consistency(reps, p) ==
    LET report_status == get_client_status_from_reports(reps)
        progress_status == get_client_status_from_progress(p) IN
    MissingLoop(report_status, progress_status)
    \o StatusLoop(report_status, progress_status)

ReportNames == {<<"x">>, <<"x", "-", "x">>, <<"kernel">>}
QueueClients == {<<>>, <<"X">>, <<"X", "+">>, <<"-", "-">>, <<"(", "x", ")">>}
CheckContents ==
    {<<>>,
     <<Line("text", "", "", <<"In Progress">>)>>,
     <<Line("rating", "", "", <<"ICON_FULL", "Fully">>),
       Line("row", "", "Basic Read", <<"ICON_WIP">>)>>}
QueueRows ==
    [nparts : {4, 6}, client : QueueClients,
     cell : SUBSET {"ICON_WIP", "ICON_FULL"}]

InitCheck ==
    /\ IdleName /\ IdleValidate /\ IdleParse /\ IdleMatrix
    /\ creports \in {r \in SeqsUpTo([file : ReportNames, content : CheckContents],
                                   MaxReports) :
                        \A i, j \in DOMAIN r : i # j => r[i].file # r[j].file}
    /\ progress \in
          {[file |-> "missing", rows |-> <<>>],
           [file |-> "no_queue", rows |-> <<>>]}
          \cup [file : {"table"}, rows : SeqsUpTo(QueueRows, MaxQueueRows)]
    /\ inconsistencies = <<>>
    /\ cexit = -1
    /\ cpc = "start"

\* main() of check_progress_consistency.py: check_consistency and the exit
\* code.
CheckMain ==
    /\ cpc = "start"
    /\ inconsistencies' = check_consistency(creports, progress)
    /\ cexit' = IF inconsistencies' = <<>> THEN 0 ELSE 1
    /\ cpc' = "done"
    /\ UNCHANGED <<creports, progress, nameVars, valVars, parseVars, matrixVars>>

NextCheck == CheckMain

SpecCheck == InitCheck /\ [][NextCheck]_vars

StatusOfReport(r) == IF ReportIsWip(r.content) THEN "in_progress" ELSE "completed"

\* C9: for every report entity that is name-matched to a queue entry, a
\* completed report whose queue entry does not record completion gets a
\* "completed but not reflected" discrepancy, and an in-progress report whose
\* queue entry does not record in-progress gets an "in progress but not
\* reflected" discrepancy.
ClaimC9_StatusRule ==
    cpc = "done" =>
        \A i \in DOMAIN creports :
            LET r == creports[i]
                q == get_client_status_from_progress(progress)
                m == find_matching_client(r.file, DictKeys(q)) IN
            m.found =>
                /\ (StatusOfReport(r) = "completed"
                    /\ DictGet(q, m.client) # "completed")
                   => Issue("completed", r.file) \in Range(inconsistencies)
                /\ (StatusOfReport(r) = "in_progress"
                    /\ DictGet(q, m.client) # "in_progress")
                   => Issue("in_progress", r.file) \in Range(inconsistencies)

----------------------------------------------------------------------------
(* validate_client_reports.py                                              *)
(* frontmatter.load gives the report body with leading and trailing        *)
(* whitespace stripped, so the body is its lines joined by newlines and no *)
(* newline follows the last line.                                          *)

REQUIRED_SECTIONS ==
    <<"Compatibility Summary", "Mount Operations", "Feature Compatibility",
      "Performance Metrics", "Test Environment Details", "Test Cases Executed">>

REQUIRED_MOUNT_OPTIONS == <<"Default (no options)", "-o ro", "-o rw">>

REQUIRED_FEATURES ==
    <<"Basic Read", "Basic Write", "File Creation", "File Deletion",
      "Directory Creation", "Directory Listing", "Large Files (>2GB)",
      "Unicode Filenames">>

\* A line that holds a "|", and a line whose first character is "|".
HasPipe(l) == l.kind = "row" \/ (l.kind = "h2" /\ l.cell # "")
StartsWithPipe(l) == l.kind = "row"

MinOf(S) == CHOOSE x \in S : \A y \in S : x <= y

\* Line 57: re.search(r'^## ' + re.escape(section), content, re.MULTILINE)
HasSection(content, section) ==
    \E i \in DOMAIN content :
        content[i].kind = "h2" /\ content[i].text = section

\* Where the text '## ' + heading occurs.
HeadingLines(content, heading) ==
    {i \in DOMAIN content : content[i].kind = "h2" /\ content[i].text = heading}

\* Lines 65, 81, 97: re.search(r'## <heading>.*?\|(.*?)\n((?:\|.*\n)+)',
\* content, re.DOTALL).  After the heading comes a "|", after it a newline
\* followed by a "|", and after that another newline.  The lines at which
\* group 2 can start, for the heading found first:
TableStarts(content, heading) ==
    LET hs == HeadingLines(content, heading) IN
    IF hs = {} THEN {}
    ELSE LET pipes == {j \in MinOf(hs)..Len(content) : HasPipe(content[j])} IN
         IF pipes = {} THEN {}
         ELSE {k + 1 : k \in {k \in MinOf(pipes)..(Len(content) - 2) :
                                 StartsWithPipe(content[k + 1])}}

TableFound(content, heading) == TableStarts(content, heading) # {}

\* group(2): "." also matches newlines, so the greedy group runs from its
\* first line to the last newline of the body.
TableText(content, heading) ==
    SubSeq(content, MinOf(TableStarts(content, heading)), Len(content) - 1)

\* Lines 74, 90: re.search(r'\| *' + re.escape(label) + r' *\|', table)
HasRow(table, label) ==
    \E i \in DOMAIN table : HasPipe(table[i]) /\ table[i].cell = label

\* Line 102: re.search(r'## Test Environment Details.*?Client Hardware:', ...)
HasHardware(content) ==
    \E h \in HeadingLines(content, "Test Environment Details") :
        \E j \in h..Len(content) : "Client Hardware:" \in Range(content[j].toks)

\* Lines 106-107: group 1 of r'## Test Cases Executed(.*?)(?:^#|$)' under
\* re.DOTALL | re.MULTILINE ends at the first end of line, so it is the rest
\* of the heading's own line; the checklist pattern is searched in it.
HasChecklist(content) ==
    LET hs == HeadingLines(content, "Test Cases Executed") IN
    hs # {} /\ "- [ ]" \in Range(content[MinOf(hs)].toks)

MissingSections(content) ==
    {REQUIRED_SECTIONS[i] : i \in {j \in DOMAIN REQUIRED_SECTIONS :
        ~HasSection(content, REQUIRED_SECTIONS[j])}}

MissingRows(table, required) ==
    {required[i] : i \in {j \in DOMAIN required : ~HasRow(table, required[j])}}

\* Lines 96-111: the checks after the feature table; never an early return.
AdvisoryFindings(content) ==
    (IF ~TableFound(content, "Performance Metrics")
     THEN {"WARNING: performance table"} ELSE {})
    \cup (IF ~HasHardware(content) THEN {"WARNING: environment"} ELSE {})
    \cup (IF ~HasChecklist(content) THEN {"WARNING: checklist"} ELSE {})

\* A variant that treats a missing performance table as an error.
validate_client_report_perf_error(report) ==
    LET content == report.content IN
    [result |-> report.meta_ok /\ MissingSections(content) = {}
                /\ TableFound(content, "Mount Operations")
                /\ TableFound(content, "Feature Compatibility")
                /\ TableFound(content, "Performance Metrics"),
     findings |-> {}]

\* validate_client_report: [result, findings], findings being what is printed.
validate_client_report(report) ==
    LET content == report.content IN
    IF ~report.meta_ok
    THEN [result |-> FALSE, findings |-> {"ERROR: frontmatter"}]
    ELSE IF MissingSections(content) # {}
    THEN [result |-> FALSE, findings |-> {"ERROR: sections"}]
    ELSE IF ~TableFound(content, "Mount Operations")
    THEN [result |-> FALSE, findings |-> {"ERROR: mount table"}]
    ELSE LET mount ==
                 IF MissingRows(TableText(content, "Mount Operations"),
                                REQUIRED_MOUNT_OPTIONS) # {}
                 THEN {"WARNING: mount options"} ELSE {} IN
         IF ~TableFound(content, "Feature Compatibility")
         THEN [result |-> FALSE,
               findings |-> mount \cup {"ERROR: feature table"}]
         ELSE LET feat ==
                      IF MissingRows(TableText(content, "Feature Compatibility"),
                                     REQUIRED_FEATURES) # {}
                      THEN {"WARNING: features"} ELSE {} IN
              [result |-> TRUE,
               findings |-> mount \cup feat \cup AdvisoryFindings(content)]

H2(section) == Line("h2", section, "", <<>>)
Row(label, icons) == Line("row", "", label, icons)
Text(toks) == Line("text", "", "", toks)

RowsOf(labels) == [i \in DOMAIN labels |-> Row(labels[i], <<"ICON_FULL">>)]
TableHead == <<Row("Header", <<>>), Row("---", <<>>)>>

\* The reports given to the validator: each part of a full report is there,
\* cut short, or left out.
ValidateContents ==
    {s1 \o s2 \o s3 \o s4 \o s5 \o s6 \o s7 \o s8 \o s9 \o s10 \o s11 :
        s1 \in {<<>>, <<H2("Compatibility Summary")>>},
        s2 \in {<<>>, <<H2("Mount Operations")>>},
        s3 \in {<<>>, <<Row("Header", <<>>)>>,
                TableHead \o RowsOf(REQUIRED_MOUNT_OPTIONS),
                TableHead \o RowsOf(Take(REQUIRED_MOUNT_OPTIONS, 2))},
        s4 \in {<<>>, <<H2("Feature Compatibility")>>},
        s5 \in {<<>>, <<Row("Header", <<>>)>>,
                TableHead \o RowsOf(REQUIRED_FEATURES),
                TableHead \o RowsOf(Take(REQUIRED_FEATURES, 7))},
        s6 \in {<<>>, <<H2("Performance Metrics")>>},
        s7 \in {<<>>, TableHead \o <<Row("Read", <<>>)>>},
        s8 \in {<<>>, <<H2("Test Environment Details")>>},
        s9 \in {<<>>, <<Text(<<"Client Hardware:">>)>>},
        s10 \in {<<>>, <<H2("Test Cases Executed")>>,
                 <<Line("h2", "Test Cases Executed", "", <<"- [ ]">>)>>},
        s11 \in {<<>>, <<Text(<<"- [ ]">>)>>}}

InitValidate ==
    /\ IdleName /\ IdleCheck /\ IdleParse /\ IdleMatrix
    /\ vreport \in [meta_ok : BOOLEAN, content : ValidateContents]
    /\ vresult = FALSE
    /\ vfindings = {}
    /\ vpc = "start"

\* One call of validate_client_report.
Validate ==
    /\ vpc = "start"
    /\ vresult' = validate_client_report(vreport).result
    /\ vfindings' = validate_client_report(vreport).findings
    /\ vpc' = "done"
    /\ UNCHANGED <<vreport, nameVars, checkVars, parseVars, matrixVars>>

NextValidate == Validate

SpecValidate == InitValidate /\ [][NextValidate]_vars

WitnessC1_Advisory ==
    /\ vpc = "done" /\ vresult = TRUE
    /\ vfindings = {"WARNING: mount options", "WARNING: features",
                    "WARNING: performance table", "WARNING: environment",
                    "WARNING: checklist"}

----------------------------------------------------------------------------
(* update_compatibility_matrix.py: parse_client_report                     *)
(* Icons are named: ICON_FULL, ICON_MOSTLY, ICON_PARTIAL, ICON_NOT,        *)
(* ICON_WIP and ICON_UNTESTED stand for the six glyphs of STATUS_ICONS.    *)

FEATURE_COLUMNS ==
    <<"Basic Mount", "Read Ops", "Write Ops", "Attrs", "Locking",
      "Large Files", "Unicode", "Overall">>

STATUS_ICONS(status) ==
    CASE status = "Fully Compatible" -> "ICON_FULL"
      [] status = "Mostly Compatible" -> "ICON_MOSTLY"
      [] status = "Partially Compatible" -> "ICON_PARTIAL"
      [] status = "Not Compatible" -> "ICON_NOT"
      [] status = "Testing in Progress" -> "ICON_WIP"
      [] status = "Not Yet Tested" -> "ICON_UNTESTED"

\* str.startswith between a table cell's label and a feature name.
CellStartsWith(cell, feature_name) ==
    \/ cell = feature_name
    \/ <<cell, feature_name>> \in
          {<<"Default (no options)", "Default">>,
           <<"Large Files (>2GB)", "Large Files">>,
           <<"Unicode Filenames", "Unicode">>}

\* Line 113: re.search(rf'## {section_name}.*?(?:^#|$)', content,
\* re.DOTALL | re.MULTILINE).  The lazy ".*?" stops at the first place where
\* "$" matches, the end of the heading's own line: the match is that line.
SectionMatch(content, section_name) ==
    LET hs == HeadingLines(content, section_name) IN
    IF hs = {} THEN <<>> ELSE <<content[MinOf(hs)]>>

FeatureIcons == {"ICON_FULL", "ICON_MOSTLY", "ICON_NOT", "ICON_WIP"}

RECURSIVE FlattenToks(_)
FlattenToks(lines) ==
    IF lines = <<>> THEN <<>>
    ELSE Head(lines).toks \o FlattenToks(Tail(lines))

\* Line 120: re.search(rf'\| *{feature_name}.*?\| *(icon).*?\|', section,
\* re.DOTALL): the first cell that starts with the feature name, then the
\* first later cell that starts with one of the four icons.  "" is no match.
FeatureIcon(section, feature_name) ==
    LET rows == {i \in DOMAIN section :
                    HasPipe(section[i])
                    /\ CellStartsWith(section[i].cell, feature_name)}
        icons == IF rows = {} THEN <<>>
                 ELSE SelectSeq(FlattenToks(Drop(section, MinOf(rows) - 1)),
                                LAMBDA t : t \in FeatureIcons) IN
    IF icons = <<>> THEN "" ELSE Head(icons)

\* Lines 124-135
IconStatus(icon) ==
    CASE icon = "ICON_FULL" -> "Fully Compatible"
      [] icon = "ICON_MOSTLY" -> "Mostly Compatible"
      [] icon = "ICON_NOT" -> "Not Compatible"
      [] icon = "ICON_WIP" -> "Testing in Progress"
      [] OTHER -> "Not Yet Tested"

extract_feature_status(content, feature_name, section_name) ==
    LET section == SectionMatch(content, section_name) IN
    IF section = <<>> THEN "Not Yet Tested"
    ELSE IconStatus(FeatureIcon(section, feature_name))

\* Lines 65-79: the Overall Rating line, found first, and its status.
RatingLines(content) == {i \in DOMAIN content : content[i].kind = "rating"}

OverallOf(content) ==
    IF RatingLines(content) = {} THEN "Not Yet Tested"
    ELSE LET rating == Range(content[MinOf(RatingLines(content))].toks) IN
         IF "ICON_WIP" \in rating \/ "Testing" \in rating
         THEN "Testing in Progress"
         ELSE IF "ICON_FULL" \in rating \/ "Fully" \in rating
         THEN "Fully Compatible"
         ELSE IF "ICON_MOSTLY" \in rating \/ "Mostly" \in rating
         THEN "Mostly Compatible"
         ELSE IF "ICON_PARTIAL" \in rating \/ "Partially" \in rating
         THEN "Partially Compatible"
         ELSE IF "ICON_NOT" \in rating \/ "Not" \in rating
         THEN "Not Compatible"
         ELSE "Not Yet Tested"

\* Lines 81-91: the features dict before the in-progress floor.
ResolveFeatures(content) ==
    [f \in Range(FEATURE_COLUMNS) |->
        CASE f = "Basic Mount" ->
                extract_feature_status(content, "Default", "Mount Operations")
          [] f = "Read Ops" ->
                extract_feature_status(content, "Basic Read", "Feature Compatibility")
          [] f = "Write Ops" ->
                extract_feature_status(content, "Basic Write", "Feature Compatibility")
          [] f = "Attrs" ->
                extract_feature_status(content, "Permission", "Feature Compatibility")
          [] f = "Locking" ->
                extract_feature_status(content, "File Locking", "Feature Compatibility")
          [] f = "Large Files" ->
                extract_feature_status(content, "Large Files", "Feature Compatibility")
          [] f = "Unicode" ->
                extract_feature_status(content, "Unicode", "Feature Compatibility")
          [] f = "Overall" -> OverallOf(content)]

\* Line 63
IsWip(content) ==
    Contains(content, "In Progress") \/ Contains(content, "ICON_WIP")

\* A floor that overwrites every feature of a report in progress.
ApplyFloorToAll(features, is_wip) ==
    IF is_wip
    THEN [f \in DOMAIN features |-> "Testing in Progress"]
    ELSE features

\* Lines 93-97: the in-progress floor.
ApplyFloor(features, is_wip) ==
    IF is_wip
    THEN [f \in DOMAIN features |->
            IF features[f] = "Not Yet Tested"
            THEN "Testing in Progress" ELSE features[f]]
    ELSE features

\* Lines 45-60: the title line found first; client and version from it.
TitleLines(content) == {i \in DOMAIN content : content[i].kind = "title"}
EndsWithPlus(word) == word \in {"5.15+"}

ClientOf(full_title) ==
    IF Len(full_title) >= 2 /\ ~EndsWithPlus(full_title[Len(full_title)])
    THEN Take(full_title, Len(full_title) - 1) ELSE full_title

VersionOf(full_title) ==
    IF Len(full_title) >= 2 /\ ~EndsWithPlus(full_title[Len(full_title)])
    THEN full_title[Len(full_title)] ELSE ""

\* What parse_client_report returns; ok is FALSE for None.
NoneResult ==
    [ok |-> FALSE, client |-> <<>>, version |-> "", overall |-> "",
     features |-> <<>>, filename |-> ""]

parse_client_report(report) ==
    LET content == report.content IN
    IF ~report.meta_ok \/ TitleLines(content) = {} THEN NoneResult
    ELSE LET full_title == content[MinOf(TitleLines(content))].toks IN
         [ok |-> TRUE,
          client |-> ClientOf(full_title),
          version |-> VersionOf(full_title),
          overall |-> OverallOf(content),
          features |-> ApplyFloor(ResolveFeatures(content), IsWip(content)),
          filename |-> report.filename]

RatingToks ==
    {"ICON_WIP", "Testing", "ICON_FULL", "Fully", "ICON_MOSTLY", "Mostly",
     "ICON_PARTIAL", "Partially", "ICON_NOT", "Not"}

Title(words) == Line("title", "", "", words)
Rating(toks) == Line("rating", "", "", toks)

\* The report bodies given to parse_client_report.
ParseContents ==
    {t \o r \o w \o h \o rows \o tail :
        t \in {<<>>, <<Title(<<"Foo", "1.0">>)>>,
               <<Title(<<"Linux", "Kernel", "5.15+">>)>>},
        r \in {<<>>} \cup {<<Rating(f)>> : f \in SeqsUpTo(RatingToks, MaxRatingToks)},
        w \in {<<>>, <<Text(<<"In Progress">>)>>},
        h \in {<<>>, <<H2("Feature Compatibility")>>,
               <<Line("h2", "Feature Compatibility", "Basic Read",
                      <<"ICON_MOSTLY">>)>>},
        rows \in {<<>>, <<Row("Basic Read", <<"ICON_FULL">>)>>,
                  <<Row("Basic Read", <<"ICON_WIP">>)>>,
                  <<Row("Unicode Filenames", <<"ICON_NOT">>)>>},
        tail \in {<<>>, <<H2("Notes")>>,
                  <<H2("Notes"), Row("Basic Read", <<"ICON_NOT">>)>>}}

InitParse ==
    /\ IdleName /\ IdleCheck /\ IdleValidate /\ IdleMatrix
    /\ preport \in
          {[meta_ok |-> FALSE, content |-> <<>>, filename |-> "foo.md"]}
          \cup [meta_ok : {TRUE}, content : ParseContents, filename : {"foo.md"}]
    /\ pwip = FALSE
    /\ presolved = <<>>
    /\ presult = NoneResult
    /\ ppc = "start"

\* One call of parse_client_report.  pwip and presolved record is_wip and
\* the features dict as they are at line 92, before the floor is applied.
Parse ==
    /\ ppc = "start"
    /\ presult' = parse_client_report(preport)
    /\ pwip' = IsWip(preport.content)
    /\ presolved' = IF presult'.ok THEN ResolveFeatures(preport.content) ELSE <<>>
    /\ ppc' = "done"
    /\ UNCHANGED <<preport, nameVars, checkVars, valVars, matrixVars>>

NextParse == Parse

SpecParse == InitParse /\ [][NextParse]_vars

\* C5: with the report marked work in progress, every feature that
\* per-feature resolution left at Not Yet Tested ends as Testing in Progress
\* and every feature it resolved otherwise keeps its status; with the report
\* not marked work in progress no feature is changed by the floor.
ClaimC5_Floor ==
    (ppc = "done" /\ presult.ok) =>
        \A f \in Range(FEATURE_COLUMNS) :
            /\ (pwip /\ presolved[f] = "Not Yet Tested")
               => presult.features[f] = "Testing in Progress"
            /\ presolved[f] # "Not Yet Tested"
               => presult.features[f] = presolved[f]
            /\ ~pwip => presult.features[f] = presolved[f]

\* A report in progress whose overall rating resolved to Not Compatible and
\* whose Read Ops feature was left unresolved: the first is kept, the second
\* is raised.
WitnessC5 ==
    /\ ppc = "done" /\ presult.ok /\ pwip
    /\ presolved["Overall"] = "Not Compatible"
    /\ presult.features["Overall"] = "Not Compatible"
    /\ presolved["Read Ops"] = "Not Yet Tested"
    /\ presult.features["Read Ops"] = "Testing in Progress"

MarkerStatus(m) ==
    CASE m = "ICON_FULL" -> "Fully Compatible"
      [] m = "ICON_MOSTLY" -> "Mostly Compatible"
      [] m = "ICON_PARTIAL" -> "Partially Compatible"
      [] m = "ICON_NOT" -> "Not Compatible"
      [] m = "ICON_WIP" -> "Testing in Progress"

PhraseStatus(ph) ==
    CASE ph = "Fully" -> "Fully Compatible"
      [] ph = "Mostly" -> "Mostly Compatible"
      [] ph = "Partially" -> "Partially Compatible"
      [] ph = "Not" -> "Not Compatible"
      [] ph = "Testing" -> "Testing in Progress"

Markers == {"ICON_FULL", "ICON_MOSTLY", "ICON_PARTIAL", "ICON_NOT", "ICON_WIP"}
Phrases == {"Fully", "Mostly", "Partially", "Not", "Testing"}

\* C6: an Overall Rating line that holds one symbolic marker and a phrase
\* naming a different status resolves to the status of the marker.
ClaimC6_MarkerBeatsPhrase ==
    (ppc = "done" /\ presult.ok /\ RatingLines(preport.content) # {}) =>
        LET toks == Range(preport.content[MinOf(RatingLines(preport.content))].toks) IN
        \A m \in toks \cap Markers :
            (/\ toks \cap Markers = {m}
             /\ \E ph \in toks \cap Phrases : PhraseStatus(ph) # MarkerStatus(m))
            => presult.overall = MarkerStatus(m)

\* The body of a section: its heading line and the lines up to the next
\* line that starts with "#".
SectionBody(content, section_name) ==
    LET hs == HeadingLines(content, section_name) IN
    IF hs = {} THEN <<>>
    ELSE LET h == MinOf(hs)
             nexts == {i \in (h + 1)..Len(content) :
                          content[i].kind \in {"h2", "title"}} IN
         SubSeq(content, h, IF nexts = {} THEN Len(content) ELSE MinOf(nexts) - 1)

\* The status of the marker of the feature's row in the section's body; Not
\* Yet Tested when the section, the row or its marker is absent.
SectionRowStatus(content, feature_name, section_name) ==
    LET body == SectionBody(content, section_name)
        rows == {i \in DOMAIN body :
                    /\ HasPipe(body[i])
                    /\ CellStartsWith(body[i].cell, feature_name)
                    /\ Range(body[i].toks) \cap FeatureIcons # {}} IN
    IF rows = {} THEN "Not Yet Tested"
    ELSE IconStatus(Head(SelectSeq(body[MinOf(rows)].toks,
                                   LAMBDA t : t \in FeatureIcons)))

\* C7: per-feature extraction reads the section's body from its heading to
\* the next heading: it returns the status of the marker of the feature's
\* row there, and Not Yet Tested only when section or marker is absent.
ClaimC7_ReadsSectionBody ==
    (ppc = "done" /\ presult.ok) =>
        /\ presolved["Read Ops"] =
              SectionRowStatus(preport.content, "Basic Read", "Feature Compatibility")
        /\ presolved["Unicode"] =
              SectionRowStatus(preport.content, "Unicode", "Feature Compatibility")

----------------------------------------------------------------------------
(* update_compatibility_matrix.py: update_compatibility_matrix and main    *)
(* index.md is a sequence of units, each a tuple of strings: a newline, the *)
(* heading text "## Compatibility Matrix", the text "| Client | Version |", *)
(* the rest of the table's header line, the separator line, a table row,   *)
(* or other text without a newline.                                        *)

NL == <<"\n">>
HEAD == <<"## Compatibility Matrix">>
TBL == <<"| Client | Version |">>
HREST == <<" Basic Mount | Read Ops | Write Ops | Attrs | Locking | Large Files | Unicode | Overall |">>
SEP == <<"|--------|---------|:-------:| ... |">>
TXT == <<"text">>
OLDROW == <<"| Old | 0.9 | ... |">>

\* Lines 145-150: the reports that parse, in the order glob gave them.
ParseAll(reps) ==
    SelectSeq([i \in DOMAIN reps |-> parse_client_report(reps[i])],
              LAMBDA d : d.ok)

\* Python's order on the strings that occur as title words and versions.
StringOrder == <<"", "1.0", "2.0", "5.15+", "Bar", "Foo", "Kernel", "Linux">>
StrRank(w) == CHOOSE i \in DOMAIN StringOrder : StringOrder[i] = w
StrLess(a, b) == StrRank(a) < StrRank(b)

\* Python's order on client names, word by word.
RECURSIVE ClientLess(_, _)
ClientLess(a, b) ==
    IF b = <<>> THEN FALSE
    ELSE IF a = <<>> THEN TRUE
    ELSE IF Head(a) # Head(b) THEN StrLess(Head(a), Head(b))
    ELSE ClientLess(Tail(a), Tail(b))

\* Lines 152-162 and 181-182: names ascending, and within a name versions
\* descending, equal versions staying in the order they were found.
RowBefore(x, y) ==
    \/ ClientLess(x.client, y.client)
    \/ (x.client = y.client /\ StrLess(y.version, x.version))

InsertSorted(sorted, x) ==
    LET later == {i \in DOMAIN sorted : RowBefore(x, sorted[i])}
        at == IF later = {} THEN Len(sorted) + 1 ELSE MinOf(later) IN
    Take(sorted, at - 1) \o <<x>> \o Drop(sorted, at - 1)

RECURSIVE SortClients(_, _)
SortClients(clients_data, sorted) ==
    IF clients_data = <<>> THEN sorted
    ELSE SortClients(Tail(clients_data), InsertSorted(sorted, Head(clients_data)))

\* Lines 183-192: one table row, a unit without a newline.
RenderRow(client) ==
    <<"|">> \o client.client \o <<"|", client.version, "|">>
    \o [i \in DOMAIN FEATURE_COLUMNS |->
           STATUS_ICONS(client.features[FEATURE_COLUMNS[i]])]
    \o (IF client.overall # "Not Yet Tested"
        THEN <<STATUS_ICONS(client.overall), client.filename>> ELSE <<>>)

\* "\n".join(rows)
RECURSIVE JoinLines(_)
JoinLines(rows) ==
    IF rows = <<>> THEN <<>>
    ELSE IF Len(rows) = 1 THEN <<Head(rows)>>
    ELSE <<Head(rows), NL>> \o JoinLines(Tail(rows))

\* Lines 175-194: header + "\n".join(rows) + "\n\n"
NewMatrix(reps) ==
    LET clients == SortClients(ParseAll(reps), <<>>)
        header == <<HEAD, NL, NL, TBL, HREST, NL, SEP, NL>> IN
    header \o JoinLines([i \in DOMAIN clients |-> RenderRow(clients[i])])
    \o <<NL, NL>>

\* Line 170: re.search(r'(## Compatibility Matrix\n\n\| Client \| Version
\* \|.*?\n\n)', content, re.DOTALL): the anchor found first and the first
\* blank line after it.
MatrixMatch(content) ==
    LET anchors == {i \in 1..(Len(content) - 3) :
                       SubSeq(content, i, i + 3) = <<HEAD, NL, NL, TBL>>}
        ends(i) == {j \in (i + 4)..(Len(content) - 1) :
                       content[j] = NL /\ content[j + 1] = NL}
        hits == {i \in anchors : ends(i) # {}} IN
    IF hits = {}
    THEN [searched |-> TRUE, found |-> FALSE, start |-> 0, end |-> 0]
    ELSE [searched |-> TRUE, found |-> TRUE, start |-> MinOf(hits),
          end |-> MinOf(ends(MinOf(hits))) + 1]

\* Line 197: content.replace(old, new) replaces every occurrence of old.
RECURSIVE StrReplace(_, _, _)
StrReplace(str, old, new) ==
    IF Len(str) < Len(old) THEN str
    ELSE IF Take(str, Len(old)) = old
    THEN new \o StrReplace(Drop(str, Len(old)), old, new)
    ELSE <<Head(str)>> \o StrReplace(Tail(str), old, new)

UpdatedContent(content, reps) ==
    LET m == MatrixMatch(content) IN
    StrReplace(content, SubSeq(content, m.start, m.end), NewMatrix(reps))

SampleReports ==
    {[meta_ok |-> TRUE, filename |-> "notes.md",
      content |-> <<Text(<<>>)>>],
     [meta_ok |-> TRUE, filename |-> "foo-1.md",
      content |-> <<Title(<<"Foo", "1.0">>), Rating(<<"ICON_FULL", "Fully">>)>>],
     [meta_ok |-> TRUE, filename |-> "foo-2.md",
      content |-> <<Title(<<"Foo", "2.0">>), Text(<<"In Progress">>)>>],
     [meta_ok |-> TRUE, filename |-> "bar.md",
      content |-> <<Title(<<"Bar">>), Rating(<<"ICON_NOT">>)>>]}

TableHeader == <<HEAD, NL, NL, TBL, HREST, NL, SEP>>

\* The index documents: text, a matrix block or none, text, a second copy
\* of the block or none, text.
IndexDocs ==
    {pre \o b1 \o mid \o b2 \o post :
        pre \in {<<>>, <<TXT, NL, NL>>},
        b1 \in {<<>>, TableHeader,
                TableHeader \o <<NL, NL>>,
                TableHeader \o <<NL, OLDROW, NL, NL>>},
        mid \in {<<>>, <<TXT, NL, NL>>},
        b2 \in {<<>>, TableHeader \o <<NL, OLDROW, NL, NL>>},
        post \in {<<>>, <<TXT, NL>>}}

InitMatrix ==
    /\ IdleName /\ IdleCheck /\ IdleValidate /\ IdleParse
    /\ mreports \in {r \in SeqsUpTo(SampleReports, MaxReports) :
                        \A i, j \in DOMAIN r : i # j => r[i] # r[j]}
    /\ disk \in IndexDocs
    /\ original = disk
    /\ mcontent = <<>>
    /\ mmatch = [searched |-> FALSE, found |-> FALSE, start |-> 0, end |-> 0]
    /\ mupdated = <<>>
    /\ mexit = -1
    /\ mpc = "start"
    /\ runs = 0
    /\ after_run = <<>>

\* Lines 139-143: glob finds no report; update_compatibility_matrix returns
\* and main returns 0.
NoReports ==
    /\ mpc = "start"
    /\ mreports = <<>>
    /\ mexit' = 0
    /\ mpc' = "done"
    /\ runs' = runs + 1
    /\ UNCHANGED <<mreports, disk, mcontent, mmatch, mupdated, original, after_run>>
    /\ UNCHANGED <<nameVars, checkVars, valVars, parseVars>>

\* Lines 145-173: the reports are parsed, index.md is read and searched; the
\* matrix is not found, update_compatibility_matrix returns and main
\* returns 0.
AnchorNotFound ==
    /\ mpc = "start"
    /\ mreports # <<>>
    /\ ~MatrixMatch(disk).found
    /\ mcontent' = disk
    /\ mmatch' = MatrixMatch(disk)
    /\ mexit' = 0
    /\ mpc' = "done"
    /\ runs' = runs + 1
    /\ UNCHANGED <<mreports, disk, mupdated, original, after_run>>
    /\ UNCHANGED <<nameVars, checkVars, valVars, parseVars>>

\* Lines 145-197: the reports are parsed, index.md is read, the matrix is
\* found, and the updated content is computed.
ComputeUpdate ==
    /\ mpc = "start"
    /\ mreports # <<>>
    /\ MatrixMatch(disk).found
    /\ mcontent' = disk
    /\ mmatch' = MatrixMatch(disk)
    /\ mupdated' = UpdatedContent(disk, mreports)
    /\ mpc' = "computed"
    /\ UNCHANGED <<mreports, disk, mexit, runs, original, after_run>>
    /\ UNCHANGED <<nameVars, checkVars, valVars, parseVars>>

\* Line 200: open(index_path, 'w') truncates index.md.
OpenForWrite ==
    /\ mpc = "computed"
    /\ disk' = <<>>
    /\ mpc' = "opened"
    /\ UNCHANGED <<mreports, mcontent, mmatch, mupdated, mexit, runs, original,
                   after_run>>
    /\ UNCHANGED <<nameVars, checkVars, valVars, parseVars>>

\* Lines 201-209: the content is written, the file is closed, and main
\* returns 0.
WriteBack ==
    /\ mpc = "opened"
    /\ disk' = mupdated
    /\ mexit' = 0
    /\ mpc' = "done"
    /\ runs' = runs + 1
    /\ after_run' = Append(after_run, mupdated)
    /\ UNCHANGED <<mreports, mcontent, mmatch, mupdated, original>>
    /\ UNCHANGED <<nameVars, checkVars, valVars, parseVars>>

\* Lines 201 and 210-212: f.write raises (the disk is full, say); main
\* catches the exception and returns 1.
WriteFails ==
    /\ mpc = "opened"
    /\ mexit' = 1
    /\ mpc' = "done"
    /\ runs' = runs + 1
    /\ UNCHANGED <<mreports, disk, mcontent, mmatch, mupdated, original, after_run>>
    /\ UNCHANGED <<nameVars, checkVars, valVars, parseVars>>

\* The process is killed between two of its steps.
Interrupt ==
    /\ mpc \in {"computed", "opened"}
    /\ mpc' = "killed"
    /\ UNCHANGED <<mreports, disk, mcontent, mmatch, mupdated, mexit, runs,
                   original, after_run>>
    /\ UNCHANGED <<nameVars, checkVars, valVars, parseVars>>

\* The script is run again on the same report files.
RunAgain ==
    /\ mpc = "done"
    /\ runs < MaxRuns
    /\ mpc' = "start"
    /\ original' = disk
    /\ mcontent' = <<>>
    /\ mmatch' = [searched |-> FALSE, found |-> FALSE, start |-> 0, end |-> 0]
    /\ mupdated' = <<>>
    /\ mexit' = -1
    /\ UNCHANGED <<mreports, disk, runs, after_run>>
    /\ UNCHANGED <<nameVars, checkVars, valVars, parseVars>>

NextMatrix ==
    \/ NoReports
    \/ AnchorNotFound
    \/ ComputeUpdate
    \/ OpenForWrite
    \/ WriteBack
    \/ WriteFails
    \/ Interrupt
    \/ RunAgain

SpecMatrix == InitMatrix /\ [][NextMatrix]_vars

\* C2: the matrix update is idempotent: the index document after a second
\* run on the same reports is identical to the document after the first.
ClaimC2_Idempotent ==
    Len(after_run) >= 2 => after_run[2] = after_run[1]

\* C3: the rewrite replaces exactly the block located by the heading and
\* table-start pattern; what precedes and what follows the block is
\* unchanged.
ClaimC3_OnlyTheBlock ==
    (mpc = "done" /\ mmatch.found /\ mexit = 0) =>
        disk = Take(mcontent, mmatch.start - 1) \o NewMatrix(mreports)
               \o Drop(mcontent, mmatch.end)

\* C4: when the matrix cannot be located in the index document, main
\* returns exit code 1 and the index document is not written.
ClaimC4_AnchorMissingFails ==
    (mpc = "done" /\ mmatch.searched /\ ~mmatch.found) =>
        (mexit = 1 /\ disk = mcontent)

\* C10: in every state of a run, index.md holds its full original content
\* or the full replacement content.
ClaimC10_AllOrNothing ==
    (mpc \in {"computed", "opened", "done", "killed"} /\ mmatch.found) =>
        disk \in {original, mupdated}

====
